---- MODULE Spec2Model ----
(***************************************************************************)
(* A model of canute-ui's pageable content (ui/pageable.py) and of the     *)
(* braille-encoding helpers it uses (ui/utility.py).                       *)
(*                                                                         *)
(* The modelled object is a Library, the Pageable that owns a catalog of   *)
(* books, together with the files it reads and writes: the library         *)
(* directory, the catalog record (book_defs.pkl) and the page state record *)
(* (library.pkl).  Characters are their ASCII codes, a string is a         *)
(* sequence of codes, a line of braille is a sequence of pin values.       *)
(***************************************************************************)
EXTENDS Integers, Sequences, FiniteSets, TLC

(***************************************************************************)
(* Bounds of the model.                                                    *)
(***************************************************************************)
\* dimensions[0]: braille cells per line
cells == 2
\* dimensions[1]: lines per page
rows == 2
\* the most lines of content (and catalog entries) the model lets grow
MaxItems == 3
\* the most book files the library directory holds at once
MaxFiles == 2

(***************************************************************************)
(* utility.py                                                              *)
(***************************************************************************)
\* the Braille-ASCII table of alpha_to_pin_num, as ASCII codes
mapping ==
    << 32, 65, 49, 66, 39, 75, 50, 76, 64, 67, 73, 70, 47, 77, 83, 80,
       34, 69, 51, 72, 57, 79, 54, 82, 94, 68, 74, 71, 62, 78, 84, 81,
       44, 42, 53, 60, 45, 85, 56, 86, 46, 37, 91, 36, 43, 88, 33, 38,
       59, 58, 52, 92, 48, 90, 55, 40, 95, 63, 87, 93, 35, 89, 41, 61 >>

\* str.upper() on one ASCII character
upper(c) == IF c \in 97..122 THEN c - 32 ELSE c

\* mapping.index(alpha.upper()), 0 when the character is not in the table
alpha_to_pin_num(alpha) ==
    LET u == upper(alpha)
        hits == {i \in DOMAIN mapping : mapping[i] = u}
    IN  IF hits = {} THEN 0
        ELSE (CHOOSE i \in hits : \A j \in hits : i <= j) - 1

alphas_to_pin_nums(alphas) ==
    [i \in DOMAIN alphas |-> alpha_to_pin_num(alphas[i])]

\* the inverse table lookup, pin value -> character
pin_nums_to_alphas(pins) ==
    [i \in DOMAIN pins |-> mapping[pins[i] + 1]]

(***************************************************************************)
(* Python's ordering of strings and lists, and sorted(xs, key=...)         *)
(***************************************************************************)
MinOf(a, b) == IF a < b THEN a ELSE b

\* a < b for two sequences of numbers (lexicographic, a proper prefix first)
LexLess(a, b) ==
    \E k \in 1..(MinOf(Len(a), Len(b)) + 1) :
        /\ \A j \in 1..(k - 1) : a[j] = b[j]
        /\ \/ k > Len(a) /\ k <= Len(b)
           \/ k <= Len(a) /\ k <= Len(b) /\ a[k] < b[k]

\* sorted(xs, key): keys[i] is the key of xs[i]; the sort is stable
StableSort(keys, xs) ==
    LET n == Len(xs)
        rank(i) == 1 + Cardinality({j \in 1..n :
                        \/ LexLess(keys[j], keys[i])
                        \/ keys[j] = keys[i] /\ j < i})
    IN  [p \in 1..n |-> xs[CHOOSE i \in 1..n : rank(i) = p]]

Zeros(n) == [i \in 1..n |-> 0]

RECURSIVE Flatten(_)
\* [cell for line in output for cell in line]
Flatten(lines) ==
    IF lines = << >> THEN << >> ELSE Head(lines) \o Flatten(Tail(lines))

(***************************************************************************)
(* Pageable                                                                *)
(***************************************************************************)
\* the number of pages with the division rounded down
num_pages_floor(length, r) == length \div r

\* int(math.ceil(length / float(r)))
num_pages(length, r) ==
    IF length % r = 0 THEN length \div r ELSE length \div r + 1

\* get_num_pages() of the content c: length len(self.content), self.rows
get_num_pages(c) == num_pages(Len(c), rows)

\* add_new_item sorting the lines by their pin values, without the key
add_new_item_by_pins(c, item) ==
    LET appended == Append(c, item)
    IN  StableSort(appended, appended)

\* content.append(item); content = sorted(content, key = pin_nums_to_alphas)
add_new_item(c, item) ==
    LET appended == Append(c, item)
    IN  StableSort([i \in DOMAIN appended |-> pin_nums_to_alphas(appended[i])],
                   appended)

\* the line as fit_content leaves it in the list it was handed:
\* "while len(line) < self.cells: line.append(0)" appends to the list itself
padded_line(line) ==
    IF Len(line) < cells THEN line \o Zeros(cells - Len(line)) ELSE line

\* fit_content without the truncation to cells values
fit_line_untruncated(line) == padded_line(line)

\* the while loop's else branch always runs: line = line[0:self.cells]
fit_line(line) ==
    LET p == padded_line(line)
    IN  SubSeq(p, 1, MinOf(Len(p), cells))

\* the lines of return_text: the fitted lines, then one block of zeros for
\* all the missing rows ([0] * n is empty for n <= 0)
fit_content(c) ==
    LET fitted == [i \in DOMAIN c |-> fit_line(c[i])]
        missing_rows == rows - Len(fitted)
    IN  Append(fitted, Zeros(cells * missing_rows))

\* the first line of a page taken for the page index itself
start_line_unscaled(p) == p

start_line(p) == p * rows

end_line(p, c) ==
    IF p * rows + rows - 1 > Len(c) - 1 THEN Len(c) - 1 ELSE p * rows + rows - 1

\* self.content[start_line:end_line+1]
page_slice(p, c) == SubSeq(c, start_line(p) + 1, end_line(p, c) + 1)

\* what show() returns
show(p, c) == Flatten(fit_content(page_slice(p, c)))

\* the content after show(): the lines of the slice are the list objects of
\* self.content, so the zeros fit_content appends stay in them
content_after_show(p, c) ==
    [i \in DOMAIN c |->
        IF i >= start_line(p) + 1 /\ i <= end_line(p, c) + 1
        THEN padded_line(c[i]) ELSE c[i]]

home(p) == IF p # 0 THEN 0 ELSE p

prev(p) == IF p > 0 THEN p - 1 ELSE p

end(p, c) ==
    IF get_num_pages(c) = 0 THEN p
    ELSE IF p # get_num_pages(c) - 1 THEN get_num_pages(c) - 1
    ELSE p

\* next() comparing against the number of pages instead of the last page
next_past_end(p, c) == IF p < get_num_pages(c) THEN p + 1 ELSE p

next(p, c) == IF p < get_num_pages(c) - 1 THEN p + 1 ELSE p

\* the page state record (get_state_file()): absent, or the pickled {'page': n}
NoState == [exists |-> FALSE, page |-> 0]

save_state(p) == [exists |-> TRUE, page |-> p]

\* load_state that leaves the page of the record unread
load_state_ignored(p, rec) == p

\* load_state: the page of the record; IOError (no file) leaves the page alone
load_state(p, rec) == IF rec.exists THEN rec.page ELSE p

(***************************************************************************)
(* The library directory                                                   *)
(***************************************************************************)
\* "b": a title shorter than a line of the display
TitleShort == << 98 >>
\* "Ca..a": a title one character longer than a line of the display
TitleLong == << 67 >> \o [i \in 1..cells |-> 97]

Titles == {TitleShort, TitleLong}

native_ext == "canute"

\* the book files find_files can meet: <library_dir>/<base>.<ext>
BookFiles == [base : Titles, ext : {"pef", native_ext}]

\* files of other kinds: a .brf book and a text file
OtherFiles == [base : Titles, ext : {"brf", "txt"}]

\* find_files(self.book_dir, ('.pef', Library.native_ext))
find_files(fs) == {f \in fs : f.ext \in {"pef", native_ext}}

\* the orders in which os.walk may list a set of files
Listings(S) ==
    {q \in [1..Cardinality(S) -> S] : \A i, j \in DOMAIN q : q[i] = q[j] => i = j}

(***************************************************************************)
(* Library.  The operators below work on a record L of the fields the      *)
(* Library's methods read and write:                                       *)
(*   book_defs  the in-memory catalog                                      *)
(*   catalog    the catalog record book_defs.pkl                           *)
(*   content    the paged titles                                           *)
(*   files      the book files of the library directory                    *)
(*   corrupt    the .pef files among them that do not parse as XML         *)
(***************************************************************************)
NoCatalog == [exists |-> FALSE, defs |-> << >>]

\* load_book_defs: the pickled list, [] on IOError
load_book_defs(rec) == IF rec.exists THEN rec.defs ELSE << >>

\* save_book_defs
save_book_defs(defs) == [exists |-> TRUE, defs |-> defs]

\* convert_pef that leaves a file that does not parse where it is
convert_pef_keeping(L, pef_file, native_file) ==
    IF pef_file \in L.corrupt
    THEN L
    ELSE [L EXCEPT !.files = (@ \cup {native_file}) \ {pef_file}]

\* convert_pef: a file that does not parse is removed and nothing is written;
\* otherwise the native file is written and the .pef removed
convert_pef(L, pef_file, native_file) ==
    IF pef_file \in L.corrupt
    THEN [L EXCEPT !.files = @ \ {pef_file}, !.corrupt = @ \ {pef_file}]
    ELSE [L EXCEPT !.files = (@ \cup {native_file}) \ {pef_file}]

\* sorted(self.book_defs, key=lambda book: book['title'])
sort_by_title(defs) == StableSort([i \in DOMAIN defs |-> defs[i].title], defs)

\* convert_brf(brf_file, native_file, remove): the native file is written,
\* the .brf removed if remove
convert_brf(L, brf_file, native_file, remove) ==
    [L EXCEPT !.files = (@ \cup {native_file}) \ (IF remove THEN {brf_file} ELSE {})]

\* add_book without the else branch of the extensions
no_unknown_format(ext) == FALSE

\* the else branch of add_book's extensions: raise PageableError
unknown_format(ext) == ext \notin {"pef", "brf", native_ext}

\* add_book(book_file) with name=None and remove=True; a file of unknown
\* format raises before anything is done
add_book(L, book_file) ==
    LET basename == book_file.base
        native_file == [base |-> basename, ext |-> native_ext]
        converted == IF book_file.ext = "pef"
                     THEN convert_pef(L, book_file, native_file)
                     ELSE IF book_file.ext = "brf"
                     THEN convert_brf(L, book_file, native_file, TRUE)
                     ELSE L
        filename == IF book_file.ext \in {"pef", "brf"} THEN native_file ELSE book_file
        book_def == [title |-> basename, filename |-> filename, type |-> "native"]
        defs == sort_by_title(Append(L.book_defs, book_def))
    IN  IF unknown_format(book_file.ext)
        THEN L
        ELSE [converted EXCEPT
                !.book_defs = defs,
                !.catalog = save_book_defs(defs),
                !.content = add_new_item(L.content, alphas_to_pin_nums(basename))]

\* check_for_new_books without the removal of the catalogued filenames
all_files(defs, fs) == find_files(fs)

\* the files of find_files left after "filenames.remove(book_def['filename'])"
\* for every book_def
new_files(defs, fs) ==
    {f \in find_files(fs) : \A i \in DOMAIN defs : defs[i].filename # f}

\* the lists of filenames check_for_new_books may come to loop over: the new
\* files in any of the orders os.walk may have listed them in
Scans(L) == Listings(new_files(L.book_defs, L.files))

RECURSIVE add_books(_, _)
\* for path in filenames: self.add_book(path)
add_books(L, filenames) ==
    IF filenames = << >> THEN L
    ELSE add_books(add_book(L, Head(filenames)), Tail(filenames))

\* check_for_new_books, filenames being the scan it loops over (one of Scans(L))
check_for_new_books(L, filenames) == add_books(L, filenames)

\* refresh that clears the content but keeps book_defs
content_cleared(L) == [L EXCEPT !.content = << >>]

\* Library.remove_state and delete_content, the first two steps of refresh
\* (the state record is removed by the action)
cleared(L) == [L EXCEPT !.book_defs = << >>, !.content = << >>]

\* refresh: remove_state, delete_content, check_for_new_books
refresh(L, filenames) == check_for_new_books(cleared(L), filenames)

\* Library.__init__ up to the scan: load_book_defs, the titles as content
loaded(catalog, fs, bad) ==
    LET defs == load_book_defs(catalog)
    IN  [book_defs |-> defs,
         catalog |-> catalog,
         content |-> [i \in DOMAIN defs |-> alphas_to_pin_nums(defs[i].title)],
         files |-> fs,
         corrupt |-> bad]

(***************************************************************************)
(* State                                                                   *)
(***************************************************************************)
VARIABLES
    page,           \* self.page
    content,        \* self.content
    book_defs,      \* self.book_defs
    state_file,     \* the page state record, <library_dir>library.pkl
    book_defs_file, \* the catalog record, <library_dir>book_defs.pkl
    files,          \* the book files in the library directory
    corrupt,        \* the .pef files among them that do not parse
    lastOp,         \* the operation that ran last
    lastCase,       \* the case it ran in, as a sequence of words
    output,         \* what it returned (the page of a show(), else nothing)
    menu_page,      \* self.page of the Menu
    input,          \* the argument it was called with
    effects,        \* the calls it made on the driver and the system, in order
    raised          \* the exception that escaped it, "" for none

vars == << page, content, book_defs, state_file, book_defs_file, files,
           corrupt, lastOp, lastCase, output, menu_page, input, effects, raised >>

\* the state of the Library and of its files, without the observation variables
program == << page, content, book_defs, state_file, book_defs_file, files,
              corrupt >>

\* the fields of the Library as the record the Library operators work on
Lib ==
    [book_defs |-> book_defs, catalog |-> book_defs_file, content |-> content,
     files |-> files, corrupt |-> corrupt]

\* the fields after an operation that leaves the Library as L
Becomes(L) ==
    /\ book_defs' = L.book_defs
    /\ book_defs_file' = L.catalog
    /\ content' = L.content
    /\ files' = L.files
    /\ corrupt' = L.corrupt

\* every book file of the directory is the filename of a catalog entry
AllKnown(defs, fs) ==
    \A f \in find_files(fs) : \E i \in DOMAIN defs : defs[i].filename = f

\* what a scan of the directory meets: only catalogued files, a .pef that
\* does not parse next to another new file, a .pef that converts, or other
\* new files
ScanCase ==
    IF AllKnown(book_defs, files) THEN "known"
    ELSE IF \E f \in new_files(book_defs, files) \cap corrupt :
                new_files(book_defs, files) \ corrupt # {}
         THEN "corrupt"
    ELSE IF \E f \in find_files(files) \ corrupt :
                /\ f.ext = "pef"
                /\ \A i \in DOMAIN book_defs : book_defs[i].filename # f
         THEN "converted"
         ELSE "new"

\* the catalog holds an entry that no file of the directory stands for
Leftover ==
    \E i \in DOMAIN book_defs :
        \A f \in find_files(files) :
            book_defs[i].filename # [base |-> f.base, ext |-> native_ext]

\* an operation that takes no argument recorded here, calls nothing outside
\* the Library, raises nothing and leaves the Menu alone
Quiet ==
    /\ effects' = << >>
    /\ raised' = ""
    /\ UNCHANGED << menu_page, input >>

AtFirst == page = 0

AtLast == get_num_pages(content) = 0 \/ page = get_num_pages(content) - 1

(***************************************************************************)
(* Library.__init__ on an empty library directory without catalog and      *)
(* state records: load_book_defs, Pageable.__init__ (page 0, load_state),  *)
(* then check_for_new_books.                                               *)
(***************************************************************************)
\* everything but the argument of the next call
Constructed ==
    LET L == check_for_new_books(loaded(NoCatalog, {}, {}), << >>)
    IN  /\ page = load_state(0, NoState)
        /\ state_file = NoState
        /\ book_defs = L.book_defs
        /\ book_defs_file = L.catalog
        /\ content = L.content
        /\ files = L.files
        /\ corrupt = L.corrupt
        /\ lastOp = "__init__"
        /\ lastCase = << "no state" >>
        /\ output = << >>
        /\ menu_page = 0
        /\ effects = << >>
        /\ raised = ""

Init == Constructed /\ input = << >>

(***************************************************************************)
(* Pageable operations                                                     *)
(***************************************************************************)
Home ==
    /\ page' = home(page)
    /\ lastOp' = "home"
    /\ Quiet
    /\ lastCase' = IF AtFirst THEN << "boundary" >> ELSE << "moved" >>
    /\ output' = << >>
    /\ UNCHANGED << content, book_defs, state_file, book_defs_file, files, corrupt >>

Prev ==
    /\ page' = prev(page)
    /\ lastOp' = "prev"
    /\ Quiet
    /\ lastCase' = IF AtFirst THEN << "boundary" >> ELSE << "moved" >>
    /\ output' = << >>
    /\ UNCHANGED << content, book_defs, state_file, book_defs_file, files, corrupt >>

End ==
    /\ page' = end(page, content)
    /\ lastOp' = "end"
    /\ Quiet
    /\ lastCase' = IF AtLast THEN << "boundary" >> ELSE << "moved" >>
    /\ output' = << >>
    /\ UNCHANGED << content, book_defs, state_file, book_defs_file, files, corrupt >>

NextPage ==
    /\ page' = next(page, content)
    /\ lastOp' = "next"
    /\ Quiet
    /\ lastCase' = IF AtLast THEN << "boundary" >> ELSE << "moved" >>
    /\ output' = << >>
    /\ UNCHANGED << content, book_defs, state_file, book_defs_file, files, corrupt >>

\* show(): returns the page, pads the stored lines it showed, saves the page
Show ==
    /\ output' = show(page, content)
    /\ content' = content_after_show(page, content)
    /\ state_file' = save_state(page)
    /\ lastOp' = "show"
    /\ Quiet
    /\ lastCase' = << >>
    /\ UNCHANGED << page, book_defs, book_defs_file, files, corrupt >>

\* the lines add_new_item is called with: "A", "1" and the titles
Items == {<< 1 >>, << 2 >>} \cup {alphas_to_pin_nums(t) : t \in Titles}

\* add_new_item(item) called on the Pageable itself
AddNewItem ==
    \E item \in Items :
        /\ Len(content) < MaxItems
        /\ content' = add_new_item(content, item)
        /\ lastOp' = "add_new_item"
        /\ Quiet
        /\ lastCase' = << >>
        /\ output' = item
        /\ UNCHANGED << page, book_defs, state_file, book_defs_file, files, corrupt >>

DeleteContent ==
    /\ content' = << >>
    /\ lastOp' = "delete_content"
    /\ Quiet
    /\ lastCase' = << >>
    /\ output' = << >>
    /\ UNCHANGED << page, book_defs, state_file, book_defs_file, files, corrupt >>

(***************************************************************************)
(* Library operations                                                      *)
(***************************************************************************)
\* add_book(book_file) for a file of the library directory
AddBook ==
    \E f \in files :
        /\ Len(book_defs) < MaxItems
        /\ Len(content) < MaxItems
        /\ Becomes(add_book(Lib, f))
        /\ raised' = IF unknown_format(f.ext) THEN "PageableError" ELSE ""
        /\ lastOp' = "add_book"
        /\ lastCase' = << f.ext >>
        /\ output' = << >>
        /\ effects' = << >>
        /\ UNCHANGED << page, state_file, menu_page, input >>

CheckForNewBooks ==
    \E filenames \in Scans(Lib) :
        /\ Becomes(check_for_new_books(Lib, filenames))
        /\ lastOp' = "check_for_new_books"
        /\ Quiet
        /\ lastCase' = IF lastOp = "check_for_new_books"
                       THEN << "again", lastCase[Len(lastCase)] >>
                       ELSE << ScanCase >>
        /\ output' = << >>
        /\ UNCHANGED << page, state_file >>

\* refresh(): Library.remove_state (book_defs = [], os.remove of the state
\* record), delete_content, check_for_new_books
Refresh ==
    \E filenames \in Scans(cleared(Lib)) :
        /\ Becomes(refresh(Lib, filenames))
        /\ state_file' = NoState
        /\ lastOp' = "refresh"
        /\ Quiet
        /\ lastCase' = << IF find_files(files) = {} THEN "empty" ELSE "found",
                          IF Leftover THEN "leftover" ELSE "same" >>
        /\ output' = << >>
        /\ UNCHANGED page

\* the program starts again: Library.__init__ on the records and files the
\* last run left
Construct ==
    \E filenames \in Scans(loaded(book_defs_file, files, corrupt)) :
        /\ Becomes(check_for_new_books(loaded(book_defs_file, files, corrupt), filenames))
        /\ page' = load_state(0, state_file)
        /\ lastOp' = "__init__"
        /\ Quiet
        /\ lastCase' = IF state_file.exists THEN << "state" >> ELSE << "no state" >>
        /\ output' = << >>
        /\ UNCHANGED state_file

\* a book file is copied into the library directory
PutFile ==
    \E f \in BookFiles \ files, parses \in BOOLEAN :
        /\ Cardinality(files) < MaxFiles
        /\ Len(book_defs) < MaxItems
        /\ Len(load_book_defs(book_defs_file)) < MaxItems
        /\ Len(content) < MaxItems
        /\ f.ext = "pef" \/ parses
        /\ files' = files \cup {f}
        /\ corrupt' = IF parses THEN corrupt ELSE corrupt \cup {f}
        /\ lastOp' = "put"
        /\ Quiet
        /\ lastCase' = << >>
        /\ output' = << >>
        /\ UNCHANGED << page, content, book_defs, state_file, book_defs_file >>

\* the Library as the user interface drives it: paging and showing, books
\* arriving and being ingested, the program starting again
Next ==
    \/ NextPage \/ Show
    \/ AddBook \/ CheckForNewBooks \/ Refresh \/ Construct
    \/ PutFile

Spec == Init /\ [][Next]_vars

\* the operations of the Pageable base class, called on the object directly
NextPageable ==
    \/ Home \/ Prev \/ End \/ NextPage \/ Show
    \/ AddNewItem \/ DeleteContent

SpecPageable == Init /\ [][NextPageable]_vars

\* the Library with add_book and refresh only, as book files arrive
NextLibrary == AddBook \/ Refresh \/ PutFile

SpecLibrary == Init /\ [][NextLibrary]_vars

(***************************************************************************)
(* Menu                                                                    *)
(***************************************************************************)
\* xs[i] of a Python list raises IndexError unless -len(xs) <= i < len(xs)
py_has(xs, i) == i >= 0 - Len(xs) /\ i < Len(xs)

\* xs[i] of a Python list: a negative index counts from the end
py_get(xs, i) == IF i < 0 THEN xs[i + Len(xs) + 1] ELSE xs[i + 1]

\* self.menu: 'refresh library', 'shutdown' and 'ip: ' (no address resolved)
menu ==
    << [title |-> << 114, 101, 102, 114, 101, 115, 104, 32, 108, 105, 98, 114, 97, 114, 121 >>, action |-> "Menu.refresh"],
       [title |-> << 115, 104, 117, 116, 100, 111, 119, 110 >>, action |-> "Menu.shutdown"],
       [title |-> << 105, 112, 58, 32 >>, action |-> "Menu.ignore"] >>

\* menu_titles_brl, the content of the Menu
menu_content == [i \in DOMAIN menu |-> alphas_to_pin_nums(menu[i].title)]

\* the numbers option and get_book are called with: the slots of a page and
\* the first number past them
Slots == 0..rows

\* option() taking the number for the index into the menu
menu_num_unpaged(number, p) == number

\* menu_num = number + self.page * self.rows
menu_num(number, p) == number + p * rows

\* what the action of a menu entry calls, after the action itself:
\* refresh: ui.library.refresh(), driver.send_ok_sound();
\* shutdown: driver.clear_page(), os.system("sudo shutdown -h now")
action_calls(action) ==
    IF action = "Menu.refresh" THEN << action, "library.refresh", "send_ok_sound" >>
    ELSE IF action = "Menu.shutdown" THEN << action, "clear_page", "shutdown" >>
    ELSE << action >>

\* the calls of option(number) on page p: the action of the entry, or
\* driver.send_error_sound() on the IndexError of self.menu[menu_num]
option(number, p) ==
    IF py_has(menu, menu_num(number, p))
    THEN action_calls(py_get(menu, menu_num(number, p)).action)
    ELSE << "send_error_sound" >>

\* Pageable.next() and prev() on the Menu
MenuNext ==
    /\ menu_page' = next(menu_page, menu_content)
    /\ lastOp' = "menu_next"
    /\ lastCase' = << >>
    /\ output' = << >>
    /\ effects' = << >>
    /\ raised' = ""
    /\ UNCHANGED << program, input >>

MenuPrev ==
    /\ menu_page' = prev(menu_page)
    /\ lastOp' = "menu_prev"
    /\ lastCase' = << >>
    /\ output' = << >>
    /\ effects' = << >>
    /\ raised' = ""
    /\ UNCHANGED << program, input >>

\* Menu.option(number); the refresh entry refreshes the Library
Option ==
    \E number \in Slots :
        /\ effects' = option(number, menu_page)
        /\ IF option(number, menu_page)[1] = "Menu.refresh"
           THEN \E filenames \in Scans(cleared(Lib)) :
                    /\ Becomes(refresh(Lib, filenames))
                    /\ state_file' = NoState
                    /\ UNCHANGED page
           ELSE UNCHANGED program
        /\ input' = number
        /\ raised' = ""
        /\ lastOp' = "option"
        /\ lastCase' = << >>
        /\ output' = << >>
        /\ UNCHANGED menu_page

\* the Menu paged and actioned while book files arrive
NextMenu == MenuNext \/ MenuPrev \/ Option \/ PutFile

SpecMenu == Init /\ [][NextMenu]_vars

(***************************************************************************)
(* Library.get_book                                                        *)
(***************************************************************************)
\* Book.__init__: the Book of a definition (every definition add_book makes
\* has type 'native'); its content is read when the Book is used
Book(book_def) == [book_def |-> book_def]

\* get_book taking the number for the index into book_defs
book_num_unpaged(number, p) == number

\* book_num = book_num + self.page * self.rows
book_num(number, p) == number + p * rows

\* get_book(number): the Book of book_defs[book_num], IndexError without one
GetBook ==
    \E number \in Slots :
        /\ IF py_has(book_defs, book_num(number, page))
           THEN /\ output' = << Book(py_get(book_defs, book_num(number, page))) >>
                /\ raised' = ""
           ELSE /\ output' = << >>
                /\ raised' = "IndexError"
        /\ input' = number
        /\ effects' = << >>
        /\ lastOp' = "get_book"
        /\ lastCase' = << >>
        /\ UNCHANGED << program, menu_page >>

\* the Library paged and books opened while book files arrive
NextOpen == NextPage \/ GetBook \/ CheckForNewBooks \/ Refresh \/ PutFile

SpecOpen == Init /\ [][NextOpen]_vars

(***************************************************************************)
(* add_book by extension                                                   *)
(***************************************************************************)
\* a file find_files does not list is copied into the library directory
PutOther ==
    \E f \in OtherFiles \ files :
        /\ Cardinality(files) < MaxFiles
        /\ files' = files \cup {f}
        /\ lastOp' = "put"
        /\ Quiet
        /\ lastCase' = << >>
        /\ output' = << >>
        /\ UNCHANGED << page, content, book_defs, state_file, book_defs_file, corrupt >>

\* add_book called on the files of a directory that holds every kind of file
NextAddBook == AddBook \/ CheckForNewBooks \/ PutFile \/ PutOther

SpecAddBook == Init /\ [][NextAddBook]_vars


(***************************************************************************)
(* DriverBoth                                                              *)
(***************************************************************************)
\* utility.get_methods(Driver) without the methods DriverBoth defines: the
\* operations of the Driver interface, which Emulated and Pi both implement
DriverMethods ==
    {"get_dimensions", "set_braille", "send_error_page", "clear_page",
     "send_error_sound", "send_ok_sound", "get_buttons"}

\* *args of a forwarded call
Args == {<< >>, << 0 >>, << 1 >>}

\* what a call of a backend's method may do: return a value or raise
Outcomes ==
    [raises : {FALSE}, value : {0, 1}] \cup {[raises |-> TRUE, value |-> 0]}

\* a call received by a backend, with what it did
Call(backend, method_name, args, outcome) ==
    [backend |-> backend, method |-> method_name, args |-> args, outcome |-> outcome]

\* method() returning what the last call returned
method_return_last(emulated_return, pi_return) == pi_return

\* return emulated_return
method_return(emulated_return, pi_return) == emulated_return

\* method(self, *args, **kwargs) of make_method(method_name): the calls the
\* backends receive, the value returned and the backend whose exception
\* leaves the method
method(method_name, args, emulated_outcome, pi_outcome) ==
    IF emulated_outcome.raises
    THEN [calls |-> << Call("emulated", method_name, args, emulated_outcome) >>,
          returned |-> << >>,
          raised |-> "emulated"]
    ELSE IF pi_outcome.raises
    THEN [calls |-> << Call("emulated", method_name, args, emulated_outcome),
                       Call("pi", method_name, args, pi_outcome) >>,
          returned |-> << >>,
          raised |-> "pi"]
    ELSE [calls |-> << Call("emulated", method_name, args, emulated_outcome),
                       Call("pi", method_name, args, pi_outcome) >>,
          returned |-> << method_return(emulated_outcome.value, pi_outcome.value) >>,
          raised |-> ""]

\* one call of a forwarded method of DriverBoth
Method ==
    \E method_name \in DriverMethods, args \in Args,
       emulated_outcome \in Outcomes, pi_outcome \in Outcomes :
        /\ effects' = method(method_name, args, emulated_outcome, pi_outcome).calls
        /\ output' = method(method_name, args, emulated_outcome, pi_outcome).returned
        /\ raised' = method(method_name, args, emulated_outcome, pi_outcome).raised
        /\ input' = << method_name, args >>
        /\ lastOp' = "method"
        /\ lastCase' = << >>
        /\ UNCHANGED << program, menu_page >>

\* the forwarded methods of a DriverBoth called one after the other
NextDriver == Method

SpecDriver == Init /\ [][NextDriver]_vars

(***************************************************************************)
(* Library.convert_brf: the bytes of the native file                       *)
(***************************************************************************)
MaxLines == 2

\* the characters of the lines of a .brf file: "b" and "~", which the table
\* does not hold
BrfChars == {98, 126}

\* "\n", which readlines() leaves at the end of a line
Newline == 10

\* the texts of a line: up to one character more than a line of the display
BrfTexts == UNION {[1..n -> BrfChars] : n \in 0..(cells + 1)}

\* the line fh.readlines() returns for a text: it ends with "\n", unless it
\* is a last line without one
read_line(text, ended) == IF ended THEN Append(text, Newline) ELSE text

\* the line of convert_brf without "line.extend([0] * missing_cells)"
brf_line_unpadded(in_line) == alphas_to_pin_nums(in_line)

\* line = alphas_to_pin_nums(in_line); line.extend([0] * missing_cells)
brf_line(in_line) ==
    alphas_to_pin_nums(in_line) \o Zeros(cells - Len(alphas_to_pin_nums(in_line)))

\* line[:self.cells]
written_row(line) == SubSeq(line, 1, MinOf(Len(line), cells))

\* the bytes convert_brf writes to the native file for the lines of a source
brf_to_native(in_lines) ==
    Flatten([i \in DOMAIN in_lines |-> written_row(brf_line(in_lines[i]))])

\* a .brf file of up to MaxLines lines is read
InitBrf ==
    /\ Constructed
    /\ \E n \in 0..MaxLines, ended \in BOOLEAN :
          \E t \in [1..n -> BrfTexts] :
              input = [i \in 1..n |-> read_line(t[i], i < n \/ ended)]

\* convert_brf(brf_file, native_file) on the .brf file read as input
ConvertBrf ==
    /\ output' = brf_to_native(input)
    /\ lastOp' = "convert_brf"
    /\ lastCase' = << >>
    /\ effects' = << >>
    /\ raised' = ""
    /\ UNCHANGED << program, menu_page, input >>

NextBrf == ConvertBrf

SpecBrf == InitBrf /\ [][NextBrf]_vars

(***************************************************************************)
(* utility.unicode_to_pin_num                                              *)
(***************************************************************************)
\* the code point of the first Unicode braille pattern, U+2800
BrailleBase == 10240

\* the Unicode braille patterns, U+2800 to U+28FF
BraillePatterns == BrailleBase..(BrailleBase + 255)

\* the weights of the tests with the last two exchanged
pin_weights_exchanged == << 32, 16, 8, 4, 1, 2 >>

\* the weights of the tests "if int_code >= w", in their order
pin_weights == << 32, 16, 8, 4, 2, 1 >>

RECURSIVE take_pins(_, _, _)
\* the tests of unicode_to_pin_num from one weight on:
\* if int_code >= w: int_code -= w; pin_num += w
take_pins(int_code, pin_num, weights) ==
    IF weights = << >> THEN pin_num
    ELSE IF int_code >= Head(weights)
         THEN take_pins(int_code - Head(weights), pin_num + Head(weights), Tail(weights))
         ELSE take_pins(int_code, pin_num, Tail(weights))

\* unicode_to_pin_num(uni_char), uni_char given by its code point
unicode_to_pin_num(uni_char) == take_pins(uni_char - BrailleBase, 0, pin_weights)

InitUnicode == Constructed /\ input \in BraillePatterns

UnicodeToPinNum ==
    /\ output' = << unicode_to_pin_num(input) >>
    /\ lastOp' = "unicode_to_pin_num"
    /\ lastCase' = << >>
    /\ effects' = << >>
    /\ raised' = ""
    /\ UNCHANGED << program, menu_page, input >>

NextUnicode == UnicodeToPinNum

SpecUnicode == InitUnicode /\ [][NextUnicode]_vars

(***************************************************************************)
(* Pageable.get_num_pages for any content length and number of rows        *)
(***************************************************************************)
MaxLen == 12

MaxRows == 5

\* len(self.content) and self.rows of a Pageable
Sizes == [length : 0..MaxLen, rows : 1..MaxRows]

InitPages == Constructed /\ input \in Sizes

GetNumPages ==
    /\ output' = << num_pages(input.length, input.rows) >>
    /\ lastOp' = "get_num_pages"
    /\ lastCase' = << >>
    /\ effects' = << >>
    /\ raised' = ""
    /\ UNCHANGED << program, menu_page, input >>

NextPages == GetNumPages

SpecPages == InitPages /\ [][NextPages]_vars



(***************************************************************************)
(* Properties                                                              *)
(***************************************************************************)
\* page p is a page of content c: in [0, num_pages-1], or 0 without pages
InRange(p, c) ==
    IF get_num_pages(c) > 0 THEN p \in 0..(get_num_pages(c) - 1) ELSE p = 0

\* C1: in every reachable state the page index is in [0, get_num_pages()-1]
\* when get_num_pages() > 0 and is 0 when get_num_pages() = 0.
PageInRange == InRange(page, content)

\* s is sorted by title (Python's order of strings)
SortedByTitle(defs) ==
    \A i, j \in DOMAIN defs : i < j => ~LexLess(defs[j].title, defs[i].title)

\* C2: after construction and any add_book and refresh calls, book_defs is
\* sorted by title and content mirrors it: the same length, and content[i] is
\* the pin-value encoding of book_defs[i].title.
ContentMirrorsCatalog ==
    /\ SortedByTitle(book_defs)
    /\ Len(content) = Len(book_defs)
    /\ \A i \in DOMAIN book_defs :
          content[i] = alphas_to_pin_nums(book_defs[i].title)

\* C3: show() always returns a flat sequence of exactly cells*rows pin values.
ShowLength ==
    lastOp = "show" =>
        /\ Len(output) = cells * rows
        /\ \A k \in DOMAIN output : output[k] \in 0..63

\* a show() of the last page of several, with a line longer than the display
\* in the content and a row of the page missing
ShowLengthWitness ==
    /\ lastOp = "show"
    /\ page > 0
    /\ page = get_num_pages(content) - 1
    /\ Len(content) % rows # 0
    /\ \E i \in DOMAIN content : Len(content[i]) > cells

\* cell k of the page p of content c: the value of the line page*rows + row at
\* the column, zero beyond the end of the line and beyond the last line
PageCell(p, c, k) ==
    LET row == (k - 1) \div cells
        col == ((k - 1) % cells) + 1
        idx == p * rows + row + 1
    IN  IF idx <= Len(c) /\ col <= Len(c[idx]) THEN c[idx][col] ELSE 0

\* C4: show() returns, in order, the content lines page*rows ..
\* min(page*rows+rows-1, len(content)-1), each truncated or zero-padded to
\* cells values, then zeros for every missing row; no line of another page.
ShowReturnsPage ==
    [][lastOp' = "show" =>
        output' = [k \in 1..(cells * rows) |-> PageCell(page, content, k)]]_vars

\* a show() of a later page that returned raised cells and padding
ShowReturnsPageWitness ==
    /\ lastOp = "show"
    /\ page > 0
    /\ Len(content) > rows
    /\ \E k \in DOMAIN output : output[k] # 0
    /\ \E k \in DOMAIN output : output[k] = 0

NavOps == {"home", "prev", "next", "end"}

\* the operation named op is called at its boundary
AtBoundary(op) ==
    \/ op \in {"home", "prev"} /\ page = 0
    \/ op \in {"next", "end"} /\ get_num_pages(content) = 0
    \/ op \in {"next", "end"} /\ page = get_num_pages(content) - 1

\* C5: home, prev, next and end never move the page index outside
\* [0, get_num_pages()-1], and each leaves the whole state unchanged at its
\* boundary (home and prev at page 0; next and end at the last page and on
\* empty content).
NavStaysInRange ==
    [][lastOp' \in NavOps =>
        /\ InRange(page, content) => InRange(page', content')
        /\ AtBoundary(lastOp') => program' = program]_vars

\* next() called on the last of several pages
NavStaysInRangeWitness ==
    /\ lastOp = "next"
    /\ lastCase = << "boundary" >>
    /\ page > 0
    /\ page = get_num_pages(content) - 1

\* C6: after every show() the state record equals the current page; a
\* Pageable constructed afterwards starts at the page of the record, at page
\* 0 when there is no record; only show() writes the record (and refresh
\* removes it).
StateRecordFollowsShow ==
    [][/\ lastOp' = "show" => state_file'.exists /\ state_file'.page = page'
       /\ lastOp' = "__init__" =>
            page' = IF state_file.exists THEN state_file.page ELSE 0
       /\ state_file' # state_file => lastOp' \in {"show", "refresh"}]_vars

\* a Library constructed on the record of a show() of a later page
StateRecordFollowsShowWitness ==
    /\ lastOp = "__init__"
    /\ lastCase = << "state" >>
    /\ state_file.exists
    /\ page > 0

\* C7: after every Library operation that changes book_defs (add_book, and
\* refresh, also one that finds no book files) the persisted catalog record
\* equals the in-memory book_defs.
CatalogPersisted ==
    lastOp \in {"add_book", "refresh"} =>
        load_book_defs(book_defs_file) = book_defs

\* C8: check_for_new_books() when every book file of the directory is the
\* filename of a catalog entry adds no entry and no line; so does a second
\* check_for_new_books() directly after a first one.
IngestionIdempotent ==
    [][/\ lastOp' = "check_for_new_books"
       /\ AllKnown(book_defs, files) \/ lastOp = "check_for_new_books"
       => book_defs' = book_defs /\ content' = content]_vars

\* a second check_for_new_books() after one that converted a .pef file
IngestionIdempotentWitness ==
    /\ lastOp = "check_for_new_books"
    /\ lastCase = << "again", "converted" >>
    /\ book_defs # << >>

\* the catalog entry add_book makes for the book file f
EntryFor(f) ==
    [title |-> f.base, filename |-> [base |-> f.base, ext |-> native_ext],
     type |-> "native"]

\* C9: after refresh() book_defs holds exactly one entry for each .pef or
\* native book file found under the library directory and no entry left
\* over from before, and the page state record has been deleted.
RefreshRebuilds ==
    [][lastOp' = "refresh" =>
        /\ ~state_file'.exists
        /\ Len(book_defs') = Cardinality(find_files(files))
        /\ \A i \in DOMAIN book_defs' :
              \E f \in find_files(files) : book_defs'[i] = EntryFor(f)
        /\ \A f \in find_files(files) :
              Cardinality({i \in DOMAIN book_defs' : book_defs'[i] = EntryFor(f)})
              = Cardinality({g \in find_files(files) : EntryFor(g) = EntryFor(f)})]_vars

\* a refresh() that found book files and dropped an entry without a file
RefreshRebuildsWitness ==
    /\ lastOp = "refresh"
    /\ lastCase = << "found", "leftover" >>
    /\ book_defs # << >>

\* the lines of c in the order of their alphabetic rendering
SortedByAlpha(c) ==
    \A i, j \in DOMAIN c :
        i < j => ~LexLess(pin_nums_to_alphas(c[j]), pin_nums_to_alphas(c[i]))

Count(c, line) == Cardinality({i \in DOMAIN c : c[i] = line})

\* C10: after every add_new_item(item) the content is sorted by the
\* alphabetic rendering of its lines and holds the inserted item together
\* with all earlier lines.
AddNewItemSorted ==
    [][lastOp' = "add_new_item" =>
        /\ SortedByAlpha(content')
        /\ Len(content') = Len(content) + 1
        /\ \A i \in DOMAIN content' :
              Count(content', content'[i]) =
                Count(content, content'[i]) + (IF content'[i] = output' THEN 1 ELSE 0)]_vars

\* an item inserted in front of lines that were added before it
AddNewItemSortedWitness ==
    /\ lastOp = "add_new_item"
    /\ Len(content) >= 3
    /\ content[1] = output
    /\ content[2] # output

\* C11: Menu.option(n) with n + page*rows outside the menu's entries raises
\* nothing, invokes no menu action and triggers exactly one error indication;
\* with the index in range it invokes exactly the action of that entry and
\* triggers no error indication.
OptionDispatch ==
    [][lastOp' = "option" =>
        LET idx == input' + menu_page * rows
        IN  /\ raised' = ""
            /\ IF idx \in 0..(Len(menu) - 1)
               THEN /\ effects' # << >>
                    /\ effects'[1] = menu[idx + 1].action
                    /\ \A k \in DOMAIN effects' :
                          /\ effects'[k] # "send_error_sound"
                          /\ k > 1 => \A e \in DOMAIN menu : effects'[k] # menu[e].action
               ELSE /\ effects' = << "send_error_sound" >>
                    /\ program' = program]_vars

\* option() of a slot past the last entry, on the last page of the Menu
OptionDispatchWitness ==
    /\ lastOp = "option"
    /\ menu_page > 0
    /\ input + menu_page * rows >= Len(menu)
    /\ effects = << "send_error_sound" >>

\* C12: Library.get_book(n) with n + page*rows outside the range of the
\* catalog fails with a not-found error (IndexError), constructs no Book and
\* leaves the Library state unchanged; with the index in range it returns a
\* Book built from book_defs[n + page*rows].
GetBookContract ==
    [][lastOp' = "get_book" =>
        LET idx == input' + page * rows
        IN  IF idx \in 0..(Len(book_defs) - 1)
            THEN /\ raised' = ""
                 /\ output' = << [book_def |-> book_defs[idx + 1]] >>
            ELSE /\ raised' = "IndexError"
                 /\ output' = << >>
                 /\ program' = program]_vars

\* get_book of an empty slot of the second page of a catalog
GetBookContractWitness ==
    /\ lastOp = "get_book"
    /\ page > 0
    /\ book_defs # << >>
    /\ input + page * rows >= Len(book_defs)
    /\ raised = "IndexError"

\* C13: add_book with a file whose extension is none of .pef, .brf and the
\* native extension fails with an invalid-format error (PageableError) and
\* adds nothing: book_defs, the persisted catalog and the page content are
\* the same as before the call.
AddBookRejects ==
    [][(lastOp' = "add_book" /\ lastCase'[1] \notin {"pef", "brf", native_ext}) =>
        /\ raised' = "PageableError"
        /\ book_defs' = book_defs
        /\ book_defs_file' = book_defs_file
        /\ content' = content]_vars

\* add_book of a text file by a Library that has books
AddBookRejectsWitness ==
    /\ lastOp = "add_book"
    /\ lastCase = << "txt" >>
    /\ raised = "PageableError"
    /\ book_defs # << >>
    /\ book_defs_file.exists

\* the book files of the directory that no catalog entry names
Uncatalogued ==
    {f \in files : /\ f.ext \in {"pef", native_ext}
                   /\ \A i \in DOMAIN book_defs : book_defs[i].filename # f}

\* the native file a book file converts to
NativeOf(f) == [base |-> f.base, ext |-> native_ext]

\* the number of entries of a catalog equal to e
Entries(defs, e) == Cardinality({i \in DOMAIN defs : defs[i] = e})

\* C14: when a .pef file fails to parse as XML during ingestion, the source
\* file is deleted, no native file is produced and no failure escapes
\* add_book or check_for_new_books; the remaining files of the same scan are
\* still ingested.
CorruptPefDropped ==
    [][/\ lastOp' = "check_for_new_books" =>
            /\ raised' = ""
            /\ \A f \in Uncatalogued \cap corrupt :
                  /\ f \notin files'
                  /\ NativeOf(f) \in files' <=> NativeOf(f) \in files
            /\ \A f \in Uncatalogued \ corrupt :
                  /\ Entries(book_defs', EntryFor(f)) >=
                        Entries(book_defs, EntryFor(f)) +
                        Cardinality({g \in Uncatalogued \ corrupt : g.base = f.base})
                  /\ NativeOf(f) \in files'
                  /\ f.ext = "pef" => f \notin files'
       /\ (lastOp' = "add_book" /\ lastCase' = << "pef" >>) =>
            /\ raised' = ""
            /\ \E f \in files :
                  /\ f.ext = "pef"
                  /\ f \notin files'
                  /\ f \in corrupt => files' = files \ {f}]_vars

\* a scan that met a .pef file that does not parse and another new file,
\* and made a catalog entry for the other file
CorruptPefDroppedWitness ==
    /\ lastOp = "check_for_new_books"
    /\ lastCase = << "corrupt" >>
    /\ raised = ""
    /\ \E i \in DOMAIN book_defs : book_defs[i].filename \in files

\* C15: for every Driver-interface operation that DriverBoth forwards, one
\* call invokes the Emulated backend first and then the Physical backend with
\* the same arguments, and returns the Emulated backend's result whatever the
\* Physical backend returns; if the Emulated call raises, the Physical
\* backend is not invoked and the failure propagates; if the Physical call
\* raises, the failure propagates after the Emulated side effect has happened.
ForwardsInOrder ==
    [][lastOp' = "method" =>
        /\ effects' # << >>
        /\ effects'[1].backend = "emulated"
        /\ effects'[1].method = input'[1]
        /\ effects'[1].args = input'[2]
        /\ IF effects'[1].outcome.raises
           THEN /\ Len(effects') = 1
                /\ raised' = "emulated"
                /\ output' = << >>
           ELSE /\ Len(effects') = 2
                /\ effects'[2].backend = "pi"
                /\ effects'[2].method = input'[1]
                /\ effects'[2].args = input'[2]
                /\ IF effects'[2].outcome.raises
                   THEN raised' = "pi" /\ output' = << >>
                   ELSE raised' = "" /\ output' = << effects'[1].outcome.value >>]_vars

\* a forwarded call with arguments whose two backends returned different
\* values
ForwardsInOrderWitness ==
    /\ lastOp = "method"
    /\ input[2] # << >>
    /\ Len(effects) = 2
    /\ raised = ""
    /\ effects[1].outcome.value # effects[2].outcome.value
    /\ output = << effects[1].outcome.value >>

\* the characters of a line read by readlines(), without its line end
TextOf(in_line) ==
    IF in_line # << >> /\ in_line[Len(in_line)] = 10
    THEN SubSeq(in_line, 1, Len(in_line) - 1)
    ELSE in_line

\* the index of a character in the ASCII-braille table, 0 without one
TableIndex(c) ==
    IF \E k \in DOMAIN mapping : mapping[k] = upper(c)
    THEN (CHOOSE k \in DOMAIN mapping :
            /\ mapping[k] = upper(c)
            /\ \A j \in 1..(k - 1) : mapping[j] # upper(c)) - 1
    ELSE 0

\* C16: convert_brf writes, for a source of N lines, a native file of exactly
\* N*cells bytes: row i holds the table index of each of the first cells
\* characters of line i and zeros for the positions beyond the line's length;
\* for a line of exactly cells characters that are all in the ASCII-braille
\* table every output byte equals the table index of the corresponding input
\* character.
BrfRows ==
    lastOp = "convert_brf" =>
        /\ Len(output) = Len(input) * cells
        /\ \A i \in DOMAIN input : \A j \in 1..cells :
              output[(i - 1) * cells + j] =
                  IF j <= Len(TextOf(input[i]))
                  THEN TableIndex(TextOf(input[i])[j])
                  ELSE 0

\* a source converted whose first line fills a row with characters of the
\* table and whose last line is shorter than a row
BrfRowsWitness ==
    /\ lastOp = "convert_brf"
    /\ Len(input) = MaxLines
    /\ Len(TextOf(input[1])) = cells
    /\ \A j \in 1..cells : output[j] = 3
    /\ Len(TextOf(input[MaxLines])) < cells
    /\ Len(output) = MaxLines * cells

\* C17: for every Unicode Braille Pattern character (code points U+2800 to
\* U+28FF), unicode_to_pin_num returns the low 6 bits of
\* (codepoint - 0x2800), a pin value in [0,63].
LowSixBits ==
    lastOp = "unicode_to_pin_num" =>
        /\ output = << (input - 10240) % 64 >>
        /\ output[1] \in 0..63

\* C18: unicode_to_pin_num(chr(0x2800 + k)) equals k for every k in [0,63].
SixDotPatternIsOffset ==
    (lastOp = "unicode_to_pin_num" /\ input - 10240 \in 0..63) =>
        output = << input - 10240 >>

\* unicode_to_pin_num of U+282A, the pattern of dots 2, 4 and 6
SixDotPatternIsOffsetWitness ==
    /\ lastOp = "unicode_to_pin_num"
    /\ input = 10240 + 42
    /\ output = << 42 >>

\* C19: for every content length L >= 0 and every rows >= 1,
\* get_num_pages() equals ceil(L/rows), the least n with n*rows >= L, and is
\* 0 when L = 0.
NumPagesIsCeiling ==
    lastOp = "get_num_pages" =>
        /\ output[1] >= 0
        /\ output[1] * input.rows >= input.length
        /\ (output[1] - 1) * input.rows < input.length
        /\ input.length = 0 => output[1] = 0

\* get_num_pages() of a content that ends with a page that is not full
NumPagesIsCeilingWitness ==
    /\ lastOp = "get_num_pages"
    /\ input.rows > 1
    /\ input.length > 2 * input.rows
    /\ input.length % input.rows # 0
    /\ output[1] * input.rows > input.length

\* C20: show() changes nothing of the Pageable except the persisted state
\* record: the content sequence, including the length and values of every
\* content line, and the page index are the same after show() as before it.
ShowKeepsContent ==
    [][lastOp' = "show" => content' = content /\ page' = page]_vars

\* C21: after any sequence of Library construction, check_for_new_books,
\* add_book and refresh, every entry of book_defs has a filename that refers
\* to an existing native content file, so get_book on any in-range slot can
\* open its content; this holds also after ingesting a .pef file that fails
\* to parse.
EntriesHaveFiles ==
    \A i \in DOMAIN book_defs :
        /\ book_defs[i].filename.ext = native_ext
        /\ book_defs[i].filename \in files

====
